---- MODULE Spec2Model ----
(***************************************************************************)
(* Barabasi-Albert simulation: the three attachment policies (Classic,     *)
(* RandomAttachement, NoGrowth), their generate loop and vertex tracking,  *)
(* the trial-averaging harness (Simulation) and mean_vectors.              *)
(*                                                                         *)
(* Node ids are 0-based as in the source (petgraph NodeIndex).  TLA+       *)
(* sequences are 1-based, so the vector element v[k] of the source is      *)
(* v[k + 1] here.                                                          *)
(***************************************************************************)
EXTENDS Integers, Sequences, FiniteSets

\* ---------------------------------------------------------------- bounds
\* Largest args.n, args.m and args.t_max explored for a single model.
MaxN == 3
MaxM == 2
MaxT == 2
\* Largest args.m * args.t_max explored: the edges one run can add.
MaxNewEdges == 5
\* The harness runs: largest n, t_max and iteration count explored.
SimMaxN == 2
SimMaxT == 1
MaxIter == 2
\* mean_vectors as a function: vectors per call, vector length, entry value.
MaxVecs == 2
MaxLen == 2
MaxVal == 2
\* VerticesEvolution used on its own: track_vertex calls per tracker.
MaxTracked == 2
\* degree_sequence as a function: edges of the graphs it is called on.
MaxGraphEdges == 2

VARIABLES
    args,                \* Args: n, m, t_max, starting_graph
    TRACKED_VERTICES,    \* the static slice handed to ModelConfig::from_args
    policy,              \* the model type G: Classic, RandomAttachement, NoGrowth
    model_config,        \* ModelConfig
    graph,               \* UnGraph: [nodes: count, edges: sequence of <<a, b>>]
    stubs,               \* Vec<NodeIndex>
    picked,              \* Vec<bool>, indexed by node id
    targets,             \* Vec<NodeIndex>, length edges_increment
    node_count,          \* BarabasiAlbertRandomAttachement.node_count
    tracked_vertices,    \* BarabasiAlbertNoGrowth.tracked_vertices
    vertices_evolution,  \* HashMap<NodeIndex, Vec<usize>>
    current_time_step,   \* BarabasiAlbertNoGrowth.current_time_step
    pc,                  \* where the program is
    time,                \* iterations of generate's loop completed
    i,                   \* step's loop counter
    source,              \* step's new_node (growth) or random_node (NoGrowth)
    ret,                 \* what the last step call returned: none, true, false
    iteration_number,    \* Simulation.iteration_number
    method,              \* the Simulation<Start> method called
    trial,               \* trials completed by the harness loop
    sequences,           \* the harness's collected degree sequences
    evolutions,          \* the harness's HashMap<NodeIndex, Vec<Vec<usize>>>
    degree_sequence,     \* Simulation.degree_sequence (Option)
    over_evolution,      \* Over.vertices_evolution (Option)
    mv_input,            \* mean_vectors called on its own: the argument
    mv_output,           \* ... and what it returned
    arrival_map          \* VerticesEvolution.arrival_map

cfgVars == <<args, TRACKED_VERTICES, policy, iteration_number, method>>
modelVars == <<graph, stubs, picked, targets, node_count, tracked_vertices,
               vertices_evolution, current_time_step>>
simVars == <<trial, sequences, evolutions, degree_sequence, over_evolution>>
meanVars == <<mv_input, mv_output>>
vars == <<args, TRACKED_VERTICES, policy, iteration_number, method,
          model_config,
          graph, stubs, picked, targets, node_count, tracked_vertices,
          vertices_evolution, current_time_step, pc, time, i, source, ret,
          trial, sequences, evolutions, degree_sequence, over_evolution,
          mv_input, mv_output, arrival_map>>

Policies == {"Classic", "RandomAttachement", "NoGrowth"}
GraphTypes == {"Complete", "Star", "Disconnected"}
\* The two transitions from Simulation<Start> to Simulation<Over>.
Methods == {"simulate", "simulate_with_tracking"}
\* The tracked time steps explored (main.rs uses [1, 10, 100, 1000]).
TrackedChoices == {<<>>, <<1>>, <<0, 2>>}

\* ------------------------------------------------------------- sequences
Range(s) == {s[k] : k \in 1..Len(s)}
Repeat(v, k) == [x \in 1..k |-> v]
EmptyMap == [x \in {} |-> <<>>]

\* ------------------------------------------------------------ the graph
\* Edges (a, j), (a, j+1), ..., (a, n-1).
RECURSIVE RowEdges(_, _, _)
RowEdges(a, j, n) ==
    IF j >= n THEN <<>> ELSE <<<<a, j>>>> \o RowEdges(a, j + 1, n)

RECURSIVE CompleteEdges(_, _)
CompleteEdges(a, n) ==
    IF a + 1 >= n THEN <<>> ELSE RowEdges(a, a + 1, n) \o CompleteEdges(a + 1, n)

\* petgraph_gen::complete_graph(n): n nodes, every pair joined once.
complete_graph(n) == [nodes |-> n, edges |-> CompleteEdges(0, n)]

\* petgraph_gen::star_graph(k): centre 0 joined to k other nodes.
star_graph(k) == [nodes |-> k + 1, edges |-> RowEdges(0, 1, k + 1)]

\* UnGraph::new_undirected() followed by n add_node calls.
edgeless_graph(n) == [nodes |-> n, edges |-> <<>>]

\* graph.edges(v).count() / graph.neighbors(v).count(): the edges incident to
\* v (none for an index that is no node of the graph).
Degree(g, v) ==
    Cardinality({k \in 1..Len(g.edges) : g.edges[k][1] = v \/ g.edges[k][2] = v})

\* graph.find_edge(a, b).is_some() on an undirected graph.
find_edge(g, a, b) ==
    \E k \in 1..Len(g.edges) :
        \/ (g.edges[k][1] = a /\ g.edges[k][2] = b)
        \/ (g.edges[k][1] = b /\ g.edges[k][2] = a)

\* The sequence read one node id too far.
degree_sequence_of_shifted(g) == [k \in 1..g.nodes |-> Degree(g, k)]

\* graph_utils.rs: DegreeSequence for UnGraph.
degree_sequence_of(g) == [k \in 1..g.nodes |-> Degree(g, k - 1)]

\* The completeness test with the halving forgotten.
is_complete_no_halving(g) == Len(g.edges) = g.nodes * (g.nodes - 1)

\* graph_utils.rs: Complete for UnGraph.
is_complete(g) == Len(g.edges) = (g.nodes * (g.nodes - 1)) \div 2

\* The stub pool built at construction: every node once per incident edge,
\* in node order.
RECURSIVE StubsFrom(_, _)
StubsFrom(g, v) ==
    IF v >= g.nodes THEN <<>>
    ELSE Repeat(v, Degree(g, v)) \o StubsFrom(g, v + 1)

\* The commit joining each target to itself instead of to the source.
add_edges_to_self(g, src, tg) ==
    [g EXCEPT !.edges = @ \o [k \in 1..Len(tg) |-> <<tg[k], tg[k]>>]]

\* The edges a step commits: source joined to every target, in order.
add_edges(g, src, tg) ==
    [g EXCEPT !.edges = @ \o [k \in 1..Len(tg) |-> <<src, tg[k]>>]]

\* The commit loop leaving the marks in place.
unmark_nothing(pk, tg) == pk

\* The commit loop unmarking its first target only.
unmark_first(pk, tg) ==
    IF tg = <<>> THEN pk ELSE [pk EXCEPT ![tg[1]] = FALSE]

\* The picked buffer after the commit loop: every target unmarked.
unmark(pk, tg) == [x \in DOMAIN pk |-> IF x \in Range(tg) THEN FALSE ELSE pk[x]]

\* ----------------------------------------------------------- ModelConfig
NoConfig == [initial_nodes |-> 0, edges_increment |-> 0, end_time |-> 0,
             starting_graph_type |-> "Complete", tracked_timesteps |-> <<>>]

\* The three assertions of ModelConfig::from_args.
from_args_ok(a) == a.n >= 1 /\ a.m <= a.n /\ a.m >= 1

from_args(a, tracked) ==
    [initial_nodes |-> a.n, edges_increment |-> a.m, end_time |-> a.t_max,
     starting_graph_type |-> a.starting_graph, tracked_timesteps |-> tracked]

\* args.rs: the value parsers of the command line, on the parsed number.
validate_n(n) == n >= 2
validate_m(m) == m >= 1

\* ------------------------------------------------------------- tracking
\* The observation inserted at the front of the entry instead of pushed.
push_entry_front(ve, v, d) ==
    [x \in (DOMAIN ve) \cup {v} |->
        IF x = v THEN <<d>> \o (IF v \in DOMAIN ve THEN ve[v] ELSE <<>>)
        ELSE ve[x]]

\* vertices_evolution.entry(v).or_default().push(d)
push_entry(ve, v, d) ==
    [x \in (DOMAIN ve) \cup {v} |->
        IF x = v THEN (IF v \in DOMAIN ve THEN ve[v] ELSE <<>>) \o <<d>>
        ELSE ve[x]]

\* update_vertices_evolution(t) skipping the arrival step itself.
RECURSIVE growth_update_strict(_, _, _, _)
growth_update_strict(ve, g, tracked, t) ==
    IF tracked = <<>> THEN ve
    ELSE LET v == Head(tracked)
             next == IF v >= t THEN ve ELSE push_entry(ve, v, Degree(g, v))
         IN growth_update_strict(next, g, Tail(tracked), t)

\* Classic and RandomAttachement: update_vertices_evolution(t).
RECURSIVE growth_update(_, _, _, _)
growth_update(ve, g, tracked, t) ==
    IF tracked = <<>> THEN ve
    ELSE LET v == Head(tracked)
             next == IF v > t THEN ve ELSE push_entry(ve, v, Degree(g, v))
         IN growth_update(next, g, Tail(tracked), t)

\* NoGrowth: update_vertices_evolution(_), over tracked_vertices.
RECURSIVE nogrowth_update(_, _, _)
nogrowth_update(ve, g, tv) ==
    IF tv = <<>> THEN ve
    ELSE nogrowth_update(push_entry(ve, Head(tv), Degree(g, Head(tv))), g, Tail(tv))

\* get_vertex_evolution(v): the trajectory, or the empty default.
get_vertex_evolution(ve, v) == IF v \in DOMAIN ve THEN ve[v] ELSE <<>>

\* ---------------------------------------------------------- mean_vectors
\* The assertions without the equal-length one.
mean_vectors_ok_no_length_check(vs) == vs # <<>>

\* The two assertions of mean_vectors: a non-empty list of equal-length vectors.
mean_vectors_ok(vs) ==
    /\ vs # <<>>
    /\ \A k \in 1..Len(vs) : Len(vs[k]) = Len(vs[1])

\* The indexing of mean_vectors that panics by itself: vectors[0] on an empty
\* list, v[c] on a vector shorter than the first.
mean_vectors_index_panics(vs) ==
    \/ vs = <<>>
    \/ \E k \in 1..Len(vs) : Len(vs[k]) < Len(vs[1])

\* mean_vectors returns a value (no assertion fails, no index panics).
mean_vectors_returns(vs) ==
    mean_vectors_ok(vs) /\ ~mean_vectors_index_panics(vs)

\* vectors.iter().map(|v| v[c]).sum()
RECURSIVE column_sum(_, _)
column_sum(vs, c) ==
    IF vs = <<>> THEN 0 ELSE Head(vs)[c] + column_sum(Tail(vs), c)

\* The quotient truncated instead of rounded up.
f64_div_floor(sum, num) == sum \div num

\* (sum as f64 / num as f64).ceil() as usize.  Both operands are far below
\* 2^53 here, so the f64 quotient has a fractional part exactly when num
\* does not divide sum, and ceil then yields the next integer.
f64_div_ceil(sum, num) ==
    IF sum % num = 0 THEN sum \div num ELSE (sum \div num) + 1

\* What mean_vectors returns when its assertions pass.
mean_vectors(vs) ==
    [c \in 1..Len(vs[1]) |-> f64_div_ceil(column_sum(vs, c), Len(vs))]

\* ------------------------------------------------------------------ Init
\* No model built yet.
NoModel ==
    /\ model_config = NoConfig
    /\ graph = edgeless_graph(0)
    /\ stubs = <<>>
    /\ picked = EmptyMap
    /\ targets = <<>>
    /\ node_count = 0
    /\ tracked_vertices = <<>>
    /\ vertices_evolution = EmptyMap
    /\ current_time_step = 0
    /\ time = 0
    /\ i = 0
    /\ source = 0
    /\ ret = "none"

\* Simulation::new(iteration_number): nothing collected, degree_sequence None.
NoSimulation ==
    /\ trial = 0
    /\ sequences = <<>>
    /\ evolutions = EmptyMap
    /\ degree_sequence = [some |-> FALSE, val |-> <<>>]
    /\ over_evolution = [some |-> FALSE, val |-> EmptyMap]

NoMeanCall ==
    /\ mv_input = <<>>
    /\ mv_output = [returned |-> FALSE, val |-> <<>>]

\* VerticesEvolution::new(): nothing registered.
NoTracker == arrival_map = EmptyMap

\* One model used through the library: any Args value, from_args, then
\* from_model_config and generate.
Init ==
    /\ args \in [n : 0..MaxN, m : 0..MaxM, t_max : 0..MaxT,
                 starting_graph : GraphTypes]
    /\ args.m * args.t_max <= MaxNewEdges
    /\ TRACKED_VERTICES \in TrackedChoices
    /\ policy \in Policies
    /\ iteration_number = 1
    /\ method = "simulate_with_tracking"
    /\ pc = "args"
    /\ NoModel
    /\ NoSimulation
    /\ NoMeanCall
    /\ NoTracker

\* ------------------------------------------------------------- from_args
FromArgs ==
    /\ pc = "args"
    /\ IF from_args_ok(args)
       THEN /\ model_config' = from_args(args, TRACKED_VERTICES)
            /\ pc' = "config"
       ELSE /\ model_config' = model_config
            /\ pc' = "panic"
    /\ UNCHANGED <<cfgVars, modelVars, time, i, source, ret, simVars, meanVars, arrival_map>>

\* ----------------------------------------------------- from_model_config
\* vec![false; initial_nodes + end_time]
fresh_picked(c) == [x \in 0..(c.initial_nodes + c.end_time - 1) |-> FALSE]

\* vec![NodeIndex::new(0); edges_increment]
fresh_targets(c) == Repeat(0, c.edges_increment)

\* The seed of a growth policy (Disconnected panics before this is used).
growth_seed(c) ==
    IF c.starting_graph_type = "Complete" THEN complete_graph(c.initial_nodes)
    ELSE star_graph(c.initial_nodes - 1)

\* The Disconnected seed without its add_node calls.
nogrowth_seed_no_nodes(c) ==
    IF c.starting_graph_type = "Complete" THEN complete_graph(c.initial_nodes)
    ELSE IF c.starting_graph_type = "Star" THEN star_graph(c.initial_nodes - 1)
    ELSE edgeless_graph(0)

\* The seed of the NoGrowth policy.
nogrowth_seed(c) ==
    IF c.starting_graph_type = "Complete" THEN complete_graph(c.initial_nodes)
    ELSE IF c.starting_graph_type = "Star" THEN star_graph(c.initial_nodes - 1)
    ELSE edgeless_graph(c.initial_nodes)

\* The stub pool NoGrowth starts with: every node once for a Disconnected
\* seed, every node once per incident edge otherwise.
nogrowth_stubs(c) ==
    IF c.starting_graph_type = "Disconnected"
    THEN [k \in 1..c.initial_nodes |-> k - 1]
    ELSE StubsFrom(nogrowth_seed(c), 0)

\* A run that starts with the loop position of the run before it.
StartRunKeepingTime ==
    /\ time' = time
    /\ i' = 0
    /\ source' = 0
    /\ ret' = "none"

\* generate begins right after construction, with every per-run local reset.
StartRun ==
    /\ time' = 0
    /\ i' = 0
    /\ source' = 0
    /\ ret' = "none"

ClassicFromModelConfig ==
    /\ pc = "config"
    /\ policy = "Classic"
    /\ trial < iteration_number
    /\ IF model_config.starting_graph_type = "Disconnected"
       THEN /\ pc' = "panic"
            /\ UNCHANGED <<modelVars, time, i, source, ret>>
       ELSE /\ graph' = growth_seed(model_config)
            /\ stubs' = StubsFrom(growth_seed(model_config), 0)
            /\ picked' = fresh_picked(model_config)
            /\ targets' = fresh_targets(model_config)
            /\ vertices_evolution' = EmptyMap
            /\ StartRun
            /\ pc' = "idle"
            /\ UNCHANGED <<node_count, tracked_vertices, current_time_step>>
    /\ UNCHANGED <<cfgVars, model_config, simVars, meanVars, arrival_map>>

RandomAttachementFromModelConfig ==
    /\ pc = "config"
    /\ policy = "RandomAttachement"
    /\ trial < iteration_number
    /\ IF model_config.starting_graph_type = "Disconnected"
       THEN /\ pc' = "panic"
            /\ UNCHANGED <<modelVars, time, i, source, ret>>
       ELSE /\ graph' = growth_seed(model_config)
            /\ picked' = fresh_picked(model_config)
            /\ targets' = fresh_targets(model_config)
            /\ vertices_evolution' = EmptyMap
            /\ node_count' = model_config.initial_nodes
            /\ StartRun
            /\ pc' = "idle"
            /\ UNCHANGED <<stubs, tracked_vertices, current_time_step>>
    /\ UNCHANGED <<cfgVars, model_config, simVars, meanVars, arrival_map>>

NoGrowthFromModelConfig ==
    /\ pc = "config"
    /\ policy = "NoGrowth"
    /\ trial < iteration_number
    /\ graph' = nogrowth_seed(model_config)
    /\ stubs' = nogrowth_stubs(model_config)
    /\ picked' = fresh_picked(model_config)
    /\ targets' = fresh_targets(model_config)
    /\ vertices_evolution' = EmptyMap
    /\ tracked_vertices' = <<>>
    /\ current_time_step' = 0
    /\ StartRun
    /\ pc' = "idle"
    /\ UNCHANGED <<node_count, cfgVars, model_config, simVars, meanVars, arrival_map>>

\* ------------------------------------------------------------------ step
\* Classic: the test that accepts a drawn target.
classic_accept(pk, target) == ~pk[target]

\* The acceptance test without the picked mark.
random_accept_any(pk, random_index) == TRUE

\* RandomAttachement: the test that accepts a drawn index.
random_accept(pk, random_index) == ~pk[random_index]

\* The acceptance test without the existing-edge check.
nogrowth_accept_no_edge_check(g, pk, src, target) ==
    /\ target # src
    /\ ~pk[target]

\* NoGrowth: the test that accepts a drawn target for the source src.
nogrowth_accept(g, pk, src, target) ==
    /\ target # src
    /\ ~pk[target]
    /\ ~find_edge(g, src, target)

\* The commit appending the targets only, not the new node.
classic_stub_push_targets_only(src, tg) == tg

\* Classic appends new_node, target per committed edge.
classic_stub_push(src, tg) ==
    [k \in 1..(2 * Len(tg)) |-> IF k % 2 = 1 THEN src ELSE tg[k \div 2]]

\* NoGrowth appends target, random_node per committed edge.
nogrowth_stub_push(src, tg) ==
    [k \in 1..(2 * Len(tg)) |-> IF k % 2 = 1 THEN tg[(k + 1) \div 2] ELSE src]

\* A step that forgets to create its node.
add_node_skipped(g) == g

\* graph.add_node(())
add_node(g) == [g EXCEPT !.nodes = @ + 1]

\* One accepted draw: mark the target, store it at targets[i], advance i.
AcceptTarget(target) ==
    /\ picked' = [picked EXCEPT ![target] = TRUE]
    /\ targets' = [targets EXCEPT ![i + 1] = target]
    /\ i' = i + 1
    /\ pc' = pc

RejectTarget == UNCHANGED <<picked, targets, i, pc>>

\* An index past the end of picked: the indexing panics.
IndexPanic ==
    /\ pc' = "panic"
    /\ UNCHANGED <<picked, targets, i>>

\* generate is inside its loop and has iterations left.
InLoop == pc = "idle" /\ time < model_config.end_time

\* ---- Classic
ClassicStepBegin ==
    /\ policy = "Classic"
    /\ InLoop
    /\ graph' = add_node(graph)
    /\ source' = graph.nodes
    /\ IF Len(stubs) = 0
       THEN pc' = "panic" /\ i' = i          \* Uniform::new(0, 0) panics
       ELSE pc' = "select" /\ i' = 0
    /\ UNCHANGED <<stubs, picked, targets, node_count, tracked_vertices,
                   vertices_evolution, current_time_step, time, ret,
                   cfgVars, model_config, simVars, meanVars, arrival_map>>

ClassicDraw ==
    /\ policy = "Classic"
    /\ pc = "select"
    /\ i < model_config.edges_increment
    /\ \E random_index \in 0..(Len(stubs) - 1) :
         LET target == stubs[random_index + 1] IN
         IF target \notin DOMAIN picked THEN IndexPanic
         ELSE IF classic_accept(picked, target) THEN AcceptTarget(target)
         ELSE RejectTarget
    /\ UNCHANGED <<graph, stubs, node_count, tracked_vertices,
                   vertices_evolution, current_time_step, time, source, ret,
                   cfgVars, model_config, simVars, meanVars, arrival_map>>

ClassicCommit ==
    /\ policy = "Classic"
    /\ pc = "select"
    /\ i >= model_config.edges_increment
    /\ graph' = add_edges(graph, source, targets)
    /\ stubs' = stubs \o classic_stub_push(source, targets)
    /\ picked' = unmark(picked, targets)
    /\ ret' = "true"
    /\ pc' = "update"
    /\ UNCHANGED <<targets, node_count, tracked_vertices, vertices_evolution,
                   current_time_step, time, i, source,
                   cfgVars, model_config, simVars, meanVars, arrival_map>>

\* ---- RandomAttachement
RandomAttachementStepBegin ==
    /\ policy = "RandomAttachement"
    /\ InLoop
    /\ graph' = add_node(graph)
    /\ source' = graph.nodes
    /\ IF node_count = 0
       THEN pc' = "panic" /\ i' = i          \* Uniform::new(0, 0) panics
       ELSE pc' = "select" /\ i' = 0
    /\ UNCHANGED <<stubs, picked, targets, node_count, tracked_vertices,
                   vertices_evolution, current_time_step, time, ret,
                   cfgVars, model_config, simVars, meanVars, arrival_map>>

RandomAttachementDraw ==
    /\ policy = "RandomAttachement"
    /\ pc = "select"
    /\ i < model_config.edges_increment
    /\ \E random_index \in 0..(node_count - 1) :
         IF random_index \notin DOMAIN picked THEN IndexPanic
         ELSE IF random_accept(picked, random_index)
              THEN AcceptTarget(random_index)
         ELSE RejectTarget
    /\ UNCHANGED <<graph, stubs, node_count, tracked_vertices,
                   vertices_evolution, current_time_step, time, source, ret,
                   cfgVars, model_config, simVars, meanVars, arrival_map>>

RandomAttachementCommit ==
    /\ policy = "RandomAttachement"
    /\ pc = "select"
    /\ i >= model_config.edges_increment
    /\ graph' = add_edges(graph, source, targets)
    /\ picked' = unmark(picked, targets)
    /\ node_count' = node_count + 1
    /\ ret' = "true"
    /\ pc' = "update"
    /\ UNCHANGED <<stubs, targets, tracked_vertices, vertices_evolution,
                   current_time_step, time, i, source,
                   cfgVars, model_config, simVars, meanVars, arrival_map>>

\* ---- NoGrowth
\* The body of NoGrowth's step up to its selection loop.
NoGrowthStepCall ==
    IF is_complete(graph)
    THEN /\ ret' = "false"
         /\ pc' = "done"                     \* generate breaks and returns
         /\ UNCHANGED <<tracked_vertices, i, source>>
    ELSE IF Len(stubs) = 0
    THEN /\ pc' = "panic"                    \* Uniform::new(0, 0) panics
         /\ UNCHANGED <<tracked_vertices, i, source, ret>>
    ELSE \E random_node \in 0..(model_config.initial_nodes - 1) :
         /\ source' = random_node
         /\ tracked_vertices' =
              IF current_time_step \in Range(model_config.tracked_timesteps)
              THEN Append(tracked_vertices, random_node)
              ELSE tracked_vertices
         /\ i' = 0
         /\ pc' = "select"
         /\ ret' = ret

NoGrowthStepBegin ==
    /\ policy = "NoGrowth"
    /\ InLoop
    /\ NoGrowthStepCall
    /\ UNCHANGED <<graph, stubs, picked, targets, node_count,
                   vertices_evolution, current_time_step, time,
                   cfgVars, model_config, simVars, meanVars, arrival_map>>

NoGrowthDraw ==
    /\ policy = "NoGrowth"
    /\ pc = "select"
    /\ i < model_config.edges_increment
    /\ \E random_index \in 0..(Len(stubs) - 1) :
         LET target == stubs[random_index + 1] IN
         IF target # source /\ target \notin DOMAIN picked THEN IndexPanic
         ELSE IF nogrowth_accept(graph, picked, source, target)
              THEN AcceptTarget(target)
         ELSE RejectTarget
    /\ UNCHANGED <<graph, stubs, node_count, tracked_vertices,
                   vertices_evolution, current_time_step, time, source, ret,
                   cfgVars, model_config, simVars, meanVars, arrival_map>>

NoGrowthCommit ==
    /\ policy = "NoGrowth"
    /\ pc = "select"
    /\ i >= model_config.edges_increment
    /\ graph' = add_edges(graph, source, targets)
    /\ stubs' = stubs \o nogrowth_stub_push(source, targets)
    /\ picked' = unmark(picked, targets)
    /\ ret' = "true"
    /\ pc' = "update"
    /\ UNCHANGED <<targets, node_count, tracked_vertices, vertices_evolution,
                   current_time_step, time, i, source,
                   cfgVars, model_config, simVars, meanVars, arrival_map>>

\* A caller invokes step once more after a step has reported termination.
StepAfterTermination ==
    /\ policy = "NoGrowth"
    /\ pc = "done"
    /\ ret = "false"
    /\ NoGrowthStepCall
    /\ UNCHANGED <<graph, stubs, picked, targets, node_count,
                   vertices_evolution, current_time_step, time,
                   cfgVars, model_config, simVars, meanVars, arrival_map>>

\* -------------------------------------------------------------- generate
\* self.update_vertices_evolution(time) of the policy.
update_vertices_evolution(t) ==
    IF policy = "NoGrowth"
    THEN nogrowth_update(vertices_evolution, graph, tracked_vertices)
    ELSE growth_update(vertices_evolution, graph,
                       model_config.tracked_timesteps, t)

\* The loop body after a step that returned true.
GenerateUpdate ==
    /\ pc = "update"
    /\ vertices_evolution' = update_vertices_evolution(time + 1)
    /\ time' = time + 1
    /\ pc' = "idle"
    /\ UNCHANGED <<graph, stubs, picked, targets, node_count, tracked_vertices,
                   current_time_step, i, source, ret,
                   cfgVars, model_config, simVars, meanVars, arrival_map>>

\* The loop is exhausted: generate returns self.graph.clone().
GenerateReturn ==
    /\ pc = "idle"
    /\ time >= model_config.end_time
    /\ pc' = "done"
    /\ UNCHANGED <<modelVars, time, i, source, ret,
                   cfgVars, model_config, simVars, meanVars, arrival_map>>

Construct ==
    \/ ClassicFromModelConfig
    \/ RandomAttachementFromModelConfig
    \/ NoGrowthFromModelConfig

Step ==
    \/ ClassicStepBegin \/ ClassicDraw \/ ClassicCommit
    \/ RandomAttachementStepBegin \/ RandomAttachementDraw
    \/ RandomAttachementCommit
    \/ NoGrowthStepBegin \/ NoGrowthDraw \/ NoGrowthCommit

Generate == Step \/ GenerateUpdate \/ GenerateReturn

Next == FromArgs \/ Construct \/ Generate \/ StepAfterTermination

Spec == Init /\ [][Next]_vars

\* ------------------------------------------------------------ Simulation
\* main: the command line is parsed (validate_n, validate_m), the config is
\* built by from_args, and simulate_with_tracking runs iteration_number trials.
SimInit ==
    /\ args \in [n : 0..SimMaxN, m : 0..SimMaxN, t_max : 0..SimMaxT,
                 starting_graph : GraphTypes]
    /\ TRACKED_VERTICES \in TrackedChoices
    /\ policy \in Policies
    /\ iteration_number \in 0..MaxIter
    /\ method \in Methods
    /\ pc = "cli"
    /\ NoModel
    /\ NoSimulation
    /\ NoMeanCall
    /\ NoTracker

ArgsParse ==
    /\ pc = "cli"
    /\ pc' = IF validate_n(args.n) /\ validate_m(args.m)
             THEN "args" ELSE "usage_error"
    /\ UNCHANGED <<cfgVars, model_config, modelVars, time, i, source, ret,
                   simVars, meanVars, arrival_map>>

\* The loop over model_config.tracked_vertices after a trial's generate: the
\* trajectory of NodeIndex(vid) is pushed onto the map entry of that node.
RECURSIVE collect_evolutions(_, _, _)
collect_evolutions(ev, tracked, ve) ==
    IF tracked = <<>> THEN ev
    ELSE collect_evolutions(
             push_entry(ev, Head(tracked), get_vertex_evolution(ve, Head(tracked))),
             Tail(tracked), ve)

\* The rest of one trial's loop body: the trial's trajectories (with
\* tracking only) and degree sequence are collected and the model is dropped.
Collect ==
    /\ pc = "done"
    /\ evolutions' =
         IF method = "simulate_with_tracking"
         THEN collect_evolutions(evolutions, model_config.tracked_timesteps,
                                 vertices_evolution)
         ELSE evolutions
    /\ sequences' = Append(sequences, degree_sequence_of(graph))
    /\ trial' = trial + 1
    /\ pc' = "config"
    /\ graph' = edgeless_graph(0)
    /\ stubs' = <<>>
    /\ picked' = EmptyMap
    /\ targets' = <<>>
    /\ node_count' = 0
    /\ tracked_vertices' = <<>>
    /\ vertices_evolution' = EmptyMap
    /\ current_time_step' = 0
    /\ StartRun
    /\ UNCHANGED <<cfgVars, model_config, degree_sequence, over_evolution,
                   meanVars, arrival_map>>

\* After the trials: the aggregates are averaged and the Over value is built;
\* simulate leaves Over.vertices_evolution None.
Aggregate ==
    /\ pc = "config"
    /\ trial >= iteration_number
    /\ IF /\ mean_vectors_returns(sequences)
          /\ \A v \in DOMAIN evolutions : mean_vectors_returns(evolutions[v])
       THEN /\ degree_sequence' = [some |-> TRUE, val |-> mean_vectors(sequences)]
            /\ over_evolution' =
                 IF method = "simulate_with_tracking"
                 THEN [some |-> TRUE,
                       val |-> [v \in DOMAIN evolutions |->
                                  mean_vectors(evolutions[v])]]
                 ELSE [some |-> FALSE, val |-> EmptyMap]
            /\ pc' = "over"
       ELSE /\ pc' = "panic"
            /\ UNCHANGED <<degree_sequence, over_evolution>>
    /\ UNCHANGED <<cfgVars, model_config, modelVars, time, i, source, ret,
                   trial, sequences, evolutions, meanVars, arrival_map>>

\* Simulation<Over>::get_mean_degree_sequence: the value, or unreachable!().
GetMeanDegreeSequence ==
    /\ pc = "over"
    /\ pc' = IF degree_sequence.some THEN "got_degree_sequence" ELSE "unreachable"
    /\ UNCHANGED <<cfgVars, model_config, modelVars, time, i, source, ret,
                   simVars, meanVars, arrival_map>>

\* Simulation<Over>::get_vertex_evolution: the value, or unreachable!().
GetVertexEvolution ==
    /\ pc = "over"
    /\ pc' = IF over_evolution.some THEN "got_vertex_evolution" ELSE "unreachable"
    /\ UNCHANGED <<cfgVars, model_config, modelVars, time, i, source, ret,
                   simVars, meanVars, arrival_map>>

Accessors == GetMeanDegreeSequence \/ GetVertexEvolution

SimNext ==
    ArgsParse \/ FromArgs \/ Construct \/ Generate \/ Collect \/ Aggregate
    \/ Accessors

SimSpec == SimInit /\ [][SimNext]_vars

\* -------------------------------------------- mean_vectors called directly
Vectors == UNION {[1..l -> 0..MaxVal] : l \in 0..MaxLen}
VectorLists == UNION {[1..k -> Vectors] : k \in 0..MaxVecs}

MeanInit ==
    /\ args = [n |-> 0, m |-> 0, t_max |-> 0, starting_graph |-> "Complete"]
    /\ TRACKED_VERTICES = <<>>
    /\ policy = "Classic"
    /\ iteration_number = 0
    /\ method = "simulate_with_tracking"
    /\ pc = "mean_call"
    /\ NoModel
    /\ NoSimulation
    /\ mv_input \in VectorLists
    /\ mv_output = [returned |-> FALSE, val |-> <<>>]
    /\ NoTracker

MeanVectorsCall ==
    /\ pc = "mean_call"
    /\ IF mean_vectors_returns(mv_input)
       THEN /\ mv_output' = [returned |-> TRUE, val |-> mean_vectors(mv_input)]
            /\ pc' = "mean_returned"
       ELSE /\ mv_output' = mv_output
            /\ pc' = "panic"
    /\ UNCHANGED <<cfgVars, model_config, modelVars, time, i, source, ret,
                   simVars, mv_input, arrival_map>>

MeanNext == MeanVectorsCall

MeanSpec == MeanInit /\ [][MeanNext]_vars

\* ------------------------------------------ VerticesEvolution on its own
\* vertices_evolution.rs: the tracker struct, driven by a caller that
\* registers vertices and calls update(graph, time) for time = 1, 2, ...
\* Its fields tracked_vertices and vertices_evolution are the variables of
\* the same names.
TrackerGraphs ==
    UNION {{complete_graph(n), star_graph(n - 1), edgeless_graph(n)} : n \in 1..MaxN}

\* arrival_map.insert(arrival, vertex)
map_insert(mp, k, v) == [x \in (DOMAIN mp) \cup {k} |-> IF x = k THEN v ELSE mp[x]]

\* VerticesEvolution::update(graph, time): every entry of tracked_vertices
\* whose index is at most time gets the vertex's neighbour count pushed.
RECURSIVE tracker_update(_, _, _, _)
tracker_update(ve, g, tv, t) ==
    IF tv = <<>> THEN ve
    ELSE LET vertex == Head(tv)
             next == IF vertex > t THEN ve
                     ELSE push_entry(ve, vertex, Degree(g, vertex))
         IN tracker_update(next, g, Tail(tv), t)

\* VerticesEvolution::get_arrival_evolution(arrival_time): Option<Vec<usize>>.
get_arrival_evolution(mp, ve, arrival_time) ==
    IF arrival_time \notin DOMAIN mp THEN [some |-> FALSE, val |-> <<>>]
    ELSE IF mp[arrival_time] \in DOMAIN ve
         THEN [some |-> TRUE, val |-> ve[mp[arrival_time]]]
         ELSE [some |-> FALSE, val |-> <<>>]

TrackerInit ==
    /\ args = [n |-> 0, m |-> 0, t_max |-> 0, starting_graph |-> "Complete"]
    /\ TRACKED_VERTICES = <<>>
    /\ policy = "Classic"
    /\ iteration_number = 0
    /\ method = "simulate_with_tracking"
    /\ pc = "tracker"
    /\ model_config = NoConfig
    /\ graph \in TrackerGraphs
    /\ stubs = <<>>
    /\ picked = EmptyMap
    /\ targets = <<>>
    /\ node_count = 0
    /\ tracked_vertices = <<>>
    /\ vertices_evolution = EmptyMap
    /\ current_time_step = 0
    /\ time = 0
    /\ i = 0
    /\ source = 0
    /\ ret = "none"
    /\ NoSimulation
    /\ NoMeanCall
    /\ NoTracker

\* VerticesEvolution::track_vertex(arrival, vertex)
TrackVertex ==
    /\ pc = "tracker"
    /\ Len(tracked_vertices) < MaxTracked
    /\ \E arrival \in 0..MaxT, vertex \in 0..(MaxN - 1) :
         /\ tracked_vertices' = Append(tracked_vertices, vertex)
         /\ arrival_map' = map_insert(arrival_map, arrival, vertex)
    /\ UNCHANGED <<cfgVars, model_config, graph, stubs, picked, targets,
                   node_count, vertices_evolution, current_time_step, pc,
                   time, i, source, ret, simVars, meanVars>>

\* The caller's next update(graph, time) call.
TrackerUpdate ==
    /\ pc = "tracker"
    /\ time < MaxT
    /\ vertices_evolution' =
         tracker_update(vertices_evolution, graph, tracked_vertices, time + 1)
    /\ time' = time + 1
    /\ UNCHANGED <<cfgVars, model_config, graph, stubs, picked, targets,
                   node_count, tracked_vertices, current_time_step, pc,
                   i, source, ret, simVars, meanVars, arrival_map>>

TrackerNext == TrackVertex \/ TrackerUpdate

TrackerSpec == TrackerInit /\ [][TrackerNext]_vars

\* ------------------------------------------- degree_sequence on its own
\* graph.degree_sequence() called by a user of the library: on the graph a
\* generate call returned, or on a graph built by hand with add_node and
\* add_edge (any node count up to MaxN, any edges between distinct nodes,
\* repeated edges included).
NodePairs(n) == {e \in (0..(n - 1)) \X (0..(n - 1)) : e[1] # e[2]}

SmallGraphs ==
    UNION {{[nodes |-> n, edges |-> es] :
              es \in UNION {[1..l -> NodePairs(n)] : l \in 0..MaxGraphEdges}} :
           n \in 0..MaxN}

DegreeInit ==
    /\ args = [n |-> 0, m |-> 0, t_max |-> 0, starting_graph |-> "Complete"]
    /\ TRACKED_VERTICES = <<>>
    /\ policy = "Classic"
    /\ iteration_number = 0
    /\ method = "simulate_with_tracking"
    /\ pc = "graph"
    /\ model_config = NoConfig
    /\ graph \in SmallGraphs
    /\ stubs = <<>>
    /\ picked = EmptyMap
    /\ targets = <<>>
    /\ node_count = 0
    /\ tracked_vertices = <<>>
    /\ vertices_evolution = EmptyMap
    /\ current_time_step = 0
    /\ time = 0
    /\ i = 0
    /\ source = 0
    /\ ret = "none"
    /\ NoSimulation
    /\ NoMeanCall
    /\ NoTracker

\* sequences.push(graph.degree_sequence())
DegreeSequenceCall ==
    /\ pc \in {"graph", "done"}
    /\ sequences' = Append(sequences, degree_sequence_of(graph))
    /\ pc' = "measured"
    /\ UNCHANGED <<cfgVars, model_config, modelVars, time, i, source, ret,
                   trial, evolutions, degree_sequence, over_evolution,
                   meanVars, arrival_map>>

DegreeSpec == (Init \/ DegreeInit) /\ [][Next \/ DegreeSequenceCall]_vars

\* ------------------------------------------------- further specifications
\* The program keeps running and its random draws are fair: a rejected draw
\* changes nothing, so a loop that can accept a draw eventually accepts one.
FairSpec == Init /\ [][Next]_vars /\ WF_vars(Next)

\* The averaging as the harness uses it and as a function called directly.
AveragingSpec == (SimInit \/ MeanInit) /\ [][SimNext \/ MeanNext]_vars

\* ======================================================================
\* Properties
\* ======================================================================
GrowthPolicies == {"Classic", "RandomAttachement"}

\* The model exists and no step is in progress.
BetweenSteps == pc \in {"idle", "update", "done"}

\* step calls that have returned true so far.
StepsDone == IF pc = "update" THEN time + 1 ELSE time

\* The edge count of the seed, from the configuration alone.
SeedEdges(c) ==
    IF c.starting_graph_type = "Complete"
    THEN (c.initial_nodes * (c.initial_nodes - 1)) \div 2
    ELSE IF c.starting_graph_type = "Star" THEN c.initial_nodes - 1
    ELSE 0

\* C1: under Classic and RandomAttachement, after k successful step calls the
\* graph has initial_nodes + k nodes and seed edges + m * k edges, and the
\* graph generate returns has initial_nodes + end_time nodes and
\* seed edges + m * end_time edges.
C1_GrowthNodeAndEdgeCount ==
    (policy \in GrowthPolicies /\ BetweenSteps) =>
        /\ graph.nodes = model_config.initial_nodes + StepsDone
        /\ Len(graph.edges) =
             SeedEdges(model_config) + model_config.edges_increment * StepsDone
        /\ pc = "done" =>
             /\ graph.nodes = model_config.initial_nodes + model_config.end_time
             /\ Len(graph.edges) = SeedEdges(model_config)
                  + model_config.edges_increment * model_config.end_time

C1_Witness ==
    /\ policy \in GrowthPolicies
    /\ pc = "done"
    /\ model_config.end_time = 2
    /\ model_config.edges_increment = 2
    /\ graph.nodes = model_config.initial_nodes + 2
    /\ Len(graph.edges) = SeedEdges(model_config) + 4

\* No self-loop and no pair of nodes joined twice.
IsSimple(g) ==
    /\ \A k \in 1..Len(g.edges) : g.edges[k][1] # g.edges[k][2]
    /\ \A k \in 1..Len(g.edges) : \A l \in (k + 1)..Len(g.edges) :
         {g.edges[k][1], g.edges[k][2]} # {g.edges[l][1], g.edges[l][2]}

\* C2: for all three policies and every seed, the graph is simple in every
\* reachable state: no self-loop and no multi-edge.
C2_GraphIsSimple == IsSimple(graph)

C2_Witness ==
    /\ policy = "NoGrowth"
    /\ pc = "done"
    /\ time = 2
    /\ Len(graph.edges) > SeedEdges(model_config)

\* The nodes reachable from the set S.
RECURSIVE Reach(_, _)
Reach(g, S) ==
    LET N == S \cup {g.edges[k][2] : k \in {x \in 1..Len(g.edges) : g.edges[x][1] \in S}}
                \cup {g.edges[k][1] : k \in {x \in 1..Len(g.edges) : g.edges[x][2] \in S}}
    IN IF N = S THEN S ELSE Reach(g, N)

\* Exactly one connected component.
Connected(g) == g.nodes >= 1 /\ Reach(g, {0}) = 0..(g.nodes - 1)

\* C3: the Classic policy keeps the graph connected: after construction and
\* after every step (so in the graph generate returns) there is exactly one
\* connected component.
C3_ClassicStaysConnected ==
    (policy = "Classic" /\ BetweenSteps) => Connected(graph)

C3_Witness ==
    /\ policy = "Classic"
    /\ pc = "done"
    /\ time = 2
    /\ model_config.starting_graph_type = "Star"
    /\ Connected(graph)

\* q is the ceiling of sum / num.
IsCeiling(q, sum, num) == q * num >= sum /\ (q - 1) * num < sum

\* The sum of the entries at index c, over the set of vector positions.
RECURSIVE SumOver(_, _, _)
SumOver(vs, c, K) ==
    IF K = {} THEN 0
    ELSE LET k == CHOOSE x \in K : TRUE
         IN vs[k][c] + SumOver(vs, c, K \ {k})

Orderings(n) == {p \in [1..n -> 1..n] : \A a, b \in 1..n : a # b => p[a] # p[b]}

\* C4: mean_vectors on k >= 1 vectors of equal length L returns a vector of
\* length L whose entry at every index is the ceiling of (sum of the entries
\* at that index) / k; mean_vectors([[2,4],[4,6]]) = [3,5]; and the result
\* is the same for every order of the k vectors.
C4_MeanVectorsIsCeilingOfMean ==
    /\ (pc # "mean_call" /\ mv_input # <<>>
        /\ \A k \in 1..Len(mv_input) : Len(mv_input[k]) = Len(mv_input[1]))
       => /\ pc = "mean_returned"
          /\ mv_output.returned
          /\ Len(mv_output.val) = Len(mv_input[1])
          /\ \A c \in 1..Len(mv_input[1]) :
               IsCeiling(mv_output.val[c],
                         SumOver(mv_input, c, 1..Len(mv_input)), Len(mv_input))
          /\ \A p \in Orderings(Len(mv_input)) :
               mean_vectors([k \in 1..Len(mv_input) |-> mv_input[p[k]]])
                 = mv_output.val
    /\ mean_vectors(<<<<2, 4>>, <<4, 6>>>>) = <<3, 5>>

C4_Witness ==
    /\ pc = "mean_returned"
    /\ mv_input = <<<<1, 2>>, <<2, 2>>>>
    /\ mv_output.val = <<2, 2>>

\* A non-empty list of vectors of one length.
EqualLengths(vs) ==
    vs # <<>> /\ \A k \in 1..Len(vs) : Len(vs[k]) = Len(vs[1])

\* C5: mean_vectors returns nothing for an empty list or a list holding a
\* vector whose length differs from the first one's, and a returned average
\* is never truncated or padded; the harness therefore reaches its Over
\* value only with at least one trial and with equal-length degree sequences
\* and equal-length trajectories per tracked node, each average as long as
\* its inputs.
C5_AveragingFailsOnBadInput ==
    /\ (pc = "mean_returned" \/ mv_output.returned) =>
         /\ EqualLengths(mv_input)
         /\ Len(mv_output.val) = Len(mv_input[1])
    /\ pc = "over" =>
         /\ iteration_number >= 1
         /\ degree_sequence.some
         /\ method = "simulate_with_tracking" => over_evolution.some
         /\ EqualLengths(sequences)
         /\ Len(degree_sequence.val) = Len(sequences[1])
         /\ DOMAIN over_evolution.val = DOMAIN evolutions
         /\ \A v \in DOMAIN evolutions :
              /\ EqualLengths(evolutions[v])
              /\ Len(over_evolution.val[v]) = Len(evolutions[v][1])

C5_Witness ==
    /\ pc = "panic"
    /\ policy = "NoGrowth"
    /\ iteration_number = 2
    /\ trial = 2
    /\ EqualLengths(sequences)
    /\ \E v \in DOMAIN evolutions : Len(evolutions[v][1]) # Len(evolutions[v][2])

\* The edge count is n(n-1)/2 for n nodes.
FullEdgeCount(g) == 2 * Len(g.edges) = g.nodes * (g.nodes - 1)

\* A step call is about to be made on the NoGrowth model.
NoGrowthStepCallable ==
    /\ policy = "NoGrowth"
    /\ \/ pc = "idle" /\ time < model_config.end_time
       \/ pc = "done" /\ ret = "false"

\* C6: a NoGrowth step call made when the graph is complete returns false and
\* leaves graph, stub pool, picked, targets and the tracking state unchanged;
\* once a step has returned false, every later step call returns false and
\* changes none of them.
C6_CompleteStepIsNoOp ==
    [][ /\ (NoGrowthStepCallable /\ FullEdgeCount(graph)) =>
             /\ ret' = "false"
             /\ UNCHANGED <<graph, stubs, picked, targets, tracked_vertices,
                            vertices_evolution, current_time_step>>
        /\ (policy = "NoGrowth" /\ ret = "false") =>
             /\ ret' = "false"
             /\ UNCHANGED <<graph, stubs, picked, targets, tracked_vertices,
                            vertices_evolution, current_time_step>>
      ]_vars

C6_Witness ==
    /\ policy = "NoGrowth"
    /\ ret = "false"
    /\ pc = "done"
    /\ time = 1
    /\ model_config.starting_graph_type = "Star"
    /\ FullEdgeCount(graph)
    /\ ENABLED StepAfterTermination

\* C7: every NoGrowth trial terminates; with fair draws no step stays in its
\* selection loop, so in every state of the loop some draw is accepted (the
\* loop cannot be left otherwise: a rejected draw changes nothing).
C7_NoGrowthSelectionCanFinish ==
    (policy = "NoGrowth" /\ pc = "select" /\ i < model_config.edges_increment) =>
        \E random_index \in 0..(Len(stubs) - 1) :
            LET target == stubs[random_index + 1] IN
            /\ target # source
            /\ ~picked[target]
            /\ ~find_edge(graph, source, target)

\* The configuration is valid for a growth policy.
ValidGrowthConfig ==
    /\ policy \in GrowthPolicies
    /\ model_config.starting_graph_type \in {"Complete", "Star"}
    /\ model_config.initial_nodes >= 2
    /\ model_config.edges_increment >= 1
    /\ model_config.edges_increment <= model_config.initial_nodes

\* C8: under Classic and RandomAttachement with a valid configuration,
\* generate makes exactly end_time step calls: with fair draws every step
\* completes and returns true, and generate returns after end_time
\* iterations, never earlier (and never panics).
C8_GrowthRunsEndTimeSteps ==
    /\ [](ValidGrowthConfig /\ pc = "config" =>
            <>(pc = "done" /\ time = model_config.end_time))
    /\ [](ValidGrowthConfig /\ pc = "done" =>
            time = model_config.end_time /\ ret # "false")
    /\ [](ValidGrowthConfig => pc # "panic")

C8_Witness ==
    /\ ValidGrowthConfig
    /\ policy = "Classic"
    /\ pc = "done"
    /\ time = 2
    /\ model_config.end_time = 2
    /\ model_config.edges_increment = 2
    /\ ret = "true"

\* C9: from_args fails whenever initial_nodes < 2, edges_increment < 1 or
\* edges_increment > initial_nodes; no ModelConfig violating one of the three
\* bounds is produced.
C9_FromArgsEnforcesBounds ==
    /\ (pc # "args" /\ (args.n < 2 \/ args.m < 1 \/ args.m > args.n)) =>
          pc = "panic"
    /\ (pc \notin {"args", "panic"}) =>
          /\ model_config.initial_nodes >= 2
          /\ model_config.edges_increment >= 1
          /\ model_config.edges_increment <= model_config.initial_nodes

\* C10: constructing Classic or RandomAttachement from a Disconnected seed
\* fails at construction, before any step (nothing is built); constructing
\* NoGrowth from a Disconnected seed succeeds and yields initial_nodes nodes
\* and no edges.
C10_DisconnectedSeedOnlyForNoGrowth ==
    [][ (pc = "config" /\ model_config.starting_graph_type = "Disconnected") =>
          IF policy \in GrowthPolicies
          THEN /\ pc' = "panic"
               /\ UNCHANGED <<graph, stubs, time, ret>>
          ELSE /\ pc' = "idle"
               /\ graph'.nodes = model_config.initial_nodes
               /\ graph'.edges = <<>>
               /\ time' = 0 /\ ret' = "none"
      ]_vars

C10_Witness ==
    /\ policy = "NoGrowth"
    /\ model_config.starting_graph_type = "Disconnected"
    /\ pc = "idle"
    /\ time = 0
    /\ graph.nodes = 3
    /\ graph.edges = <<>>

\* C11: every accessor of a Simulation<Over> is total: whichever method built
\* it (simulate or simulate_with_tracking), degree_sequence and
\* vertices_evolution are both present, and neither get_mean_degree_sequence
\* nor get_vertex_evolution reaches its unreachable!() branch.
C11_OverAccessorsTotal ==
    /\ pc = "over" => degree_sequence.some /\ over_evolution.some
    /\ pc # "unreachable"

\* A step's commit: the selection loop has filled targets and the edges are
\* added.
CommitStep == pc = "select" /\ pc' = "update"

\* C12: in every step of every policy the targets committed as edge endpoints
\* are exactly edges_increment node ids, pairwise distinct, each an existing
\* node that passes the policy's test: for Classic/RandomAttachement a node
\* older than the one created in this step, for NoGrowth a node other than
\* the source and not adjacent to it before the step; the edges added are
\* those from the source to the targets.
C12_CommittedTargetsValid ==
    [][ CommitStep =>
          /\ Len(targets) = model_config.edges_increment
          /\ \A a, b \in 1..Len(targets) : a # b => targets[a] # targets[b]
          /\ \A k \in 1..Len(targets) :
               /\ targets[k] \in 0..(graph.nodes - 1)
               /\ targets[k] # source
               /\ policy \in GrowthPolicies =>
                    source = graph.nodes - 1 /\ targets[k] < source
               /\ policy = "NoGrowth" => ~find_edge(graph, source, targets[k])
          /\ Len(graph'.edges) = Len(graph.edges) + model_config.edges_increment
          /\ \A k \in 1..Len(targets) :
               graph'.edges[Len(graph.edges) + k] = <<source, targets[k]>>
      ]_vars

C12_Witness ==
    /\ policy = "RandomAttachement"
    /\ pc = "update"
    /\ time = 1
    /\ model_config.edges_increment = 2
    /\ targets = <<2, 0>>
    /\ find_edge(graph, source, 2) /\ find_edge(graph, source, 0)

\* generate of a growth policy is between two iterations or has returned:
\* time steps are complete and recorded.
GrowthStepsRecorded == policy \in GrowthPolicies /\ pc \in {"idle", "done"}

\* C13 as stated: for every tracked arrival a and every step count t, the
\* trajectory recorded for arrival a has length exactly t - a once t >= a,
\* and no entry at all while t < a.
C13_TrajectoryLengthIsStepsSinceArrival ==
    GrowthStepsRecorded =>
      \A a \in Range(model_config.tracked_timesteps) :
        IF time >= a
        THEN Len(get_vertex_evolution(vertices_evolution, a)) = time - a
        ELSE a \notin DOMAIN vertices_evolution

\* The steps 1..t whose update records arrival a: those from a on.
RecordingSteps(a, t) == {x \in 1..t : x >= a}

\* C13 amended: under Classic and RandomAttachement, after t completed steps
\* the trajectory recorded for tracked arrival a has one entry per step from
\* step a to step t inclusive (t - a + 1 entries for a >= 1, t entries for
\* a = 0), and no entry at all while t < a.
C13_TrajectoryLengthCountsArrivalStep ==
    GrowthStepsRecorded =>
      \A a \in Range(model_config.tracked_timesteps) :
        IF time >= a /\ time >= 1
        THEN /\ a \in DOMAIN vertices_evolution
             /\ Len(vertices_evolution[a]) = Cardinality(RecordingSteps(a, time))
             /\ a >= 1 => Len(vertices_evolution[a]) = time - a + 1
        ELSE a \notin DOMAIN vertices_evolution

C13_Witness ==
    /\ policy = "Classic"
    /\ pc = "done"
    /\ time = 2
    /\ model_config.tracked_timesteps = <<0, 2>>
    /\ Len(vertices_evolution[0]) = 2
    /\ Len(vertices_evolution[2]) = 1

\* No entry of the sequence is smaller than the one before it.
NonDecreasing(s) == \A k \in 1..(Len(s) - 1) : s[k] <= s[k + 1]

\* C14: tracking arrival time 1 under Classic with end_time = T >= 1 yields,
\* after generate, a trajectory of exactly T recorded degrees; every recorded
\* trajectory of every policy is non-decreasing.
C14_ArrivalOneHasEndTimeEntries ==
    /\ ( /\ policy = "Classic"
         /\ pc = "done"
         /\ 1 \in Range(model_config.tracked_timesteps)
         /\ model_config.end_time >= 1 ) =>
           /\ 1 \in DOMAIN vertices_evolution
           /\ Len(vertices_evolution[1]) = model_config.end_time
    /\ \A v \in DOMAIN vertices_evolution : NonDecreasing(vertices_evolution[v])

C14_Witness ==
    /\ policy = "Classic"
    /\ pc = "done"
    /\ model_config.tracked_timesteps = <<1>>
    /\ model_config.end_time = 2
    /\ Len(vertices_evolution[1]) = 2
    /\ vertices_evolution[1][1] < vertices_evolution[1][2]

\* Every registration so far is of a pair the arrival map still holds, and no
\* vertex is registered under two arrivals: the registrations are pairs
\* (arrival, vertex) with distinct arrivals and distinct vertices, each made
\* once or more.
OnlyRepeatedPairs ==
    /\ \A a, b \in DOMAIN arrival_map :
         arrival_map[a] = arrival_map[b] => a = b
    /\ Range(tracked_vertices) = {arrival_map[a] : a \in DOMAIN arrival_map}

\* The update calls made so far that record the vertex.
RecordingUpdates(vertex) == {x \in 1..time : x >= vertex}

\* C15: track_vertex is idempotent per arrival: registering the same
\* (arrival, vertex) pair again leaves the tracker observably as it was, so
\* the trajectory get_arrival_evolution returns for an arrival holds at most
\* one observation per update call.
C15_TrackVertexIdempotent ==
    (pc = "tracker" /\ OnlyRepeatedPairs) =>
      \A a \in DOMAIN arrival_map :
        Len(get_arrival_evolution(arrival_map, vertices_evolution, a).val)
          <= Cardinality(RecordingUpdates(arrival_map[a]))

\* C16: in the NoGrowth policy no node is registered for tracking twice (a
\* source already tracked from an earlier arrival is redrawn): the tracked
\* nodes are pairwise distinct and each tracked node has received exactly one
\* degree observation per step elapsed since it was registered, so never
\* more observations than completed steps.
C16_NoGrowthTrackedNodesDistinct ==
    policy = "NoGrowth" =>
      /\ \A a, b \in 1..Len(tracked_vertices) :
           a # b => tracked_vertices[a] # tracked_vertices[b]
      /\ pc \in {"idle", "done"} =>
           \A v \in DOMAIN vertices_evolution :
             Len(vertices_evolution[v]) <= time

\* C17: in the NoGrowth policy the current step advances by one with every
\* executed step, the source chosen at a tracked step is registered at that
\* step and only there (one registration per tracked arrival at most), and
\* once the step of a tracked arrival has been executed a trajectory exists.
\* A tracked arrival a < time has had its step executed whether steps are
\* counted from 0 or from 1.
C17_NoGrowthRegistersSourceAtArrival ==
    (policy = "NoGrowth" /\ pc \in {"idle", "done"}) =>
      /\ current_time_step = time
      /\ Len(tracked_vertices) <= Cardinality(Range(model_config.tracked_timesteps))
      /\ (\E a \in Range(model_config.tracked_timesteps) : a < time) =>
           /\ tracked_vertices # <<>>
           /\ DOMAIN vertices_evolution # {}

RECURSIVE SeqSum(_)
SeqSum(s) == IF s = <<>> THEN 0 ELSE Head(s) + SeqSum(Tail(s))

\* The edges of g with an end at node v.
IncidentEdges(g, v) == {k \in 1..Len(g.edges) : v \in {g.edges[k][1], g.edges[k][2]}}

StubPolicies == {"Classic", "NoGrowth"}

\* Occurrences of node v in the pool.
StubCount(v) == Cardinality({k \in 1..Len(stubs) : stubs[k] = v})

\* C20 as stated: between steps of a policy that owns a stub pool (Classic,
\* and NoGrowth from any seed, Disconnected included) the pool's length is
\* exactly twice the edge count and every node id occurs in it exactly as
\* many times as the node's degree.
C20_StubPoolIsTwiceEdges ==
    (policy \in StubPolicies /\ BetweenSteps) =>
      /\ Len(stubs) = 2 * Len(graph.edges)
      /\ \A v \in 0..(graph.nodes - 1) : StubCount(v) = Degree(graph, v)

\* Entries a node owns in the pool beyond its degree: one for every node of
\* a NoGrowth model built from a Disconnected seed, none otherwise.
SeedStubsPerNode ==
    IF policy = "NoGrowth" /\ model_config.starting_graph_type = "Disconnected"
    THEN 1 ELSE 0

\* C20 amended: between steps, the pool of Classic, and of NoGrowth built
\* from a Complete or Star seed, has length exactly twice the edge count and
\* holds every node id as many times as the node's degree; the pool of
\* NoGrowth built from a Disconnected seed holds every node once more than
\* its degree (length 2 * edges + initial_nodes).  In every case the pool
\* holds node ids of the graph only and has grown by exactly
\* 2 * edges_increment entries per successful step.
C20_StubPoolTracksDegrees ==
    (policy \in StubPolicies /\ BetweenSteps) =>
      /\ Len(stubs) = 2 * Len(graph.edges) + SeedStubsPerNode * graph.nodes
      /\ \A v \in 0..(graph.nodes - 1) :
           StubCount(v) = Degree(graph, v) + SeedStubsPerNode
      /\ Range(stubs) \subseteq 0..(graph.nodes - 1)
      /\ Len(stubs) = 2 * SeedEdges(model_config)
                      + SeedStubsPerNode * model_config.initial_nodes
                      + 2 * model_config.edges_increment * StepsDone

C20_Witness ==
    /\ policy = "NoGrowth"
    /\ model_config.starting_graph_type = "Disconnected"
    /\ pc = "idle"
    /\ time = 1
    /\ graph.nodes = 3
    /\ Len(graph.edges) = 2
    /\ Len(stubs) = 7

\* The node ids a draw of the selection loop can test in picked.
DrawableIds ==
    IF policy = "RandomAttachement" THEN 0..(node_count - 1) ELSE Range(stubs)

\* The entries of picked that are set.
Marked == {x \in DOMAIN picked : picked[x]}

\* C21: the picked buffer, sized initial_nodes + end_time, is entirely false
\* at the start and at the end of every step call of every policy; inside a
\* step exactly the targets accepted so far are marked, and the commit
\* unmarks them all, so no mark leaks into the next step; every id a draw
\* can test lies inside the buffer, so it is never indexed out of range.
C21_PickedClearBetweenSteps ==
    /\ pc \in {"idle", "select", "update", "done"} =>
         DOMAIN picked =
           0..(model_config.initial_nodes + model_config.end_time - 1)
    /\ BetweenSteps => Marked = {}
    /\ pc = "select" =>
         /\ Marked = {targets[k] : k \in 1..i}
         /\ DrawableIds \subseteq DOMAIN picked

C21_Witness ==
    /\ policy = "Classic"
    /\ pc = "update"
    /\ time = 1
    /\ model_config.edges_increment = 2
    /\ targets[1] # targets[2]
    /\ Marked = {}

\* The node count of the graph a completed generate returns.
FinalNodeCount ==
    IF policy \in GrowthPolicies
    THEN model_config.initial_nodes + model_config.end_time
    ELSE model_config.initial_nodes

\* The policy instance is as from_model_config builds it from the
\* configuration alone.
FreshInstance ==
    /\ graph = IF policy \in GrowthPolicies THEN growth_seed(model_config)
               ELSE nogrowth_seed(model_config)
    /\ policy = "Classic" => stubs = StubsFrom(growth_seed(model_config), 0)
    /\ policy = "NoGrowth" => stubs = nogrowth_stubs(model_config)
    /\ picked = fresh_picked(model_config)
    /\ targets = fresh_targets(model_config)
    /\ vertices_evolution = EmptyMap
    /\ policy = "RandomAttachement" => node_count = model_config.initial_nodes
    /\ policy = "NoGrowth" => tracked_vertices = <<>> /\ current_time_step = 0

\* C22: a harness run with iteration_number = k >= 1 builds a fresh policy
\* instance for each of its k trials (no graph, pool or tracker state of the
\* trial before), every collected degree sequence has the length of the final
\* node count (initial_nodes + end_time for Classic/RandomAttachement,
\* initial_nodes for NoGrowth, also when it halts early), so the averaging of
\* the degree sequences meets its equal-length precondition and the
\* aggregated degree sequence has that length, over k collected sequences.
C22_TrialsFreshAndSequencesEqualLength ==
    /\ (pc = "idle" /\ time = 0) => FreshInstance
    /\ \A k \in 1..Len(sequences) : Len(sequences[k]) = FinalNodeCount
    /\ Len(sequences) = trial
    /\ (pc = "config" /\ trial >= iteration_number /\ iteration_number >= 1) =>
         mean_vectors_returns(sequences)
    /\ pc \in {"over", "got_degree_sequence", "got_vertex_evolution"} =>
         /\ iteration_number >= 1
         /\ Len(sequences) = iteration_number
         /\ Len(degree_sequence.val) = FinalNodeCount

C22_Witness ==
    /\ pc = "over"
    /\ policy = "NoGrowth"
    /\ iteration_number = 2
    /\ model_config.starting_graph_type = "Star"
    /\ model_config.end_time = 1
    /\ degree_sequence.val = <<1, 1>>

====
